---- MODULE Spec2Model ----
(***************************************************************************)
(* A model of the session layer of webapp/frontend/script.js (class        *)
(* AntrikshGPT, the first definition, lines 6-1387): the WebSocket          *)
(* connection and its reconnection policy, frame dispatch, the tool-call   *)
(* tracker, the streamed-reply reassembler, the chat history and the HTTP  *)
(* fallback.  Every handler of the class is one action; the browser        *)
(* (socket events, timers, animation events, HTTP responses) is the        *)
(* environment.                                                            *)
(***************************************************************************)
EXTENDS Integers, Sequences, FiniteSets, TLC

VARIABLES
    sockets,                \* readyState of every WebSocket that can still fire events; the last one is this.ws
    isConnected,            \* this.isConnected
    retryCount,             \* this.retryCount
    reconnectTimers,        \* pending setTimeout callbacks of attemptReconnect (their delays, ms)
    intervalsRunning,       \* the setInterval timers of this.updateIntervals are running
    connectionLostNotices,  \* how often the 'Connection lost' notification was shown
    delayLog,               \* history: delays scheduled since the last onopen
    chatHistory,            \* this.chatHistory
    streamingMessage,       \* <<pieces>> of the element with id 'streaming-message', <<>> when there is none
    wsSent,                 \* frames handed to ws.send
    httpPending,            \* fetch('/api/chat') requests awaiting their response
    activeToolCalls,        \* this.activeToolCalls
    toolCallHistory,        \* this.toolCallHistory
    settleTimers,           \* pending 2000 ms timers of completeToolCall, oldest first
    simTimers,              \* pending completion timers of simulateToolCallsFromMessage
    toolCallItems,          \* ids rendered as .tool-call-item elements
    exitListeners,          \* animationend listeners on rendered elements that run the exit animation
    genCount,               \* how many tool-call ids startToolCall has generated
    widgetUpdates,          \* updateToolCallWidget calls made by the latest handler
    widgetPresent,          \* the document holds the tool-call widget elements
    lastEvent,              \* history: the event the latest handler ran for
    now                     \* Date.now()

connVars == <<sockets, isConnected, retryCount, reconnectTimers, intervalsRunning,
              connectionLostNotices, delayLog>>
chatVars == <<chatHistory, streamingMessage>>
sendVars == <<wsSent, httpPending>>
toolVars == <<activeToolCalls, toolCallHistory, settleTimers, simTimers, toolCallItems,
              exitListeners, genCount>>
vars == <<connVars, chatVars, sendVars, toolVars, widgetUpdates, widgetPresent, lastEvent, now>>

----------------------------------------------------------------------------
(* Program constants *)

maxRetries == 5
BaseDelay == 1000
DelayCap == 30000
ToolHistoryCap == 10
ChatHistoryCap == 50
ChatHistoryKeep == 40
OutboundHistory == 10

(* Bounds of the model *)

MaxNow == 1
MaxTurns == 3
MaxSends == 1
MaxGen == 2
MaxCalls == 2
MaxChunks == 2
MaxHistoryCalls == 11
MaxStreamed == 1

----------------------------------------------------------------------------
(* JavaScript values *)

Undefined == "<undefined>"
Null == "<null>"

Truthy(v) == v \notin {Undefined, Null, ""}

JsOr(a, b) == IF Truthy(a) THEN a ELSE b

Field(obj, f) == IF f \in DOMAIN obj THEN obj[f] ELSE Undefined

Str(v) == IF v = Undefined THEN "undefined" ELSE IF v = Null THEN "null" ELSE v

Min(a, b) == IF a < b THEN a ELSE b

RECURSIVE Pow2(_)
Pow2(n) == IF n = 0 THEN 1 ELSE 2 * Pow2(n - 1)

SliceLast(s, n) == IF Len(s) <= n THEN s ELSE SubSeq(s, Len(s) - n + 1, Len(s))

RemoveAt(s, i) == SubSeq(s, 1, i - 1) \o SubSeq(s, i + 1, Len(s))

----------------------------------------------------------------------------
(* The tool-call tracker.  Its operations are written on a record t of the  *)
(* tracker's state so that a handler can apply several of them in sequence. *)

Tracker ==
    [active |-> activeToolCalls, history |-> toolCallHistory, settle |-> settleTimers,
     sim |-> simTimers, items |-> toolCallItems, listeners |-> exitListeners,
     gen |-> genCount, updates |-> 0]

SetTracker(t) ==
    /\ activeToolCalls' = t.active
    /\ toolCallHistory' = t.history
    /\ settleTimers' = t.settle
    /\ simTimers' = t.sim
    /\ toolCallItems' = t.items
    /\ exitListeners' = t.listeners
    /\ genCount' = t.gen
    /\ widgetUpdates' = t.updates

(* `tool_${Date.now()}_${random}`: an id no other call carries *)
GeneratedIds == <<"tool_g1", "tool_g2", "tool_g3", "tool_g4", "tool_g5", "tool_g6">>

Put(map, key, value) == (key :> value) @@ map

Delete(map, key) == [k \in (DOMAIN map) \ {key} |-> map[k]]

(* updateToolCallWidget: returns early when the widget is not in the document, *)
(* else replaces content.innerHTML, so every item element is a new one          *)
UpdateToolCallWidget(t) ==
    IF ~widgetPresent
    THEN [t EXCEPT !.updates = @ + 1]
    ELSE [t EXCEPT !.updates = @ + 1, !.items = DOMAIN t.active, !.listeners = {}]

StartedId(t, id) == IF Truthy(id) THEN id ELSE GeneratedIds[t.gen + 1]

(* startToolCall without the check for an entry that exists *)
StartToolCallOverwrites(t, toolName, description, id) ==
    LET toolCallId == StartedId(t, id)
        t1 == IF Truthy(id) THEN t ELSE [t EXCEPT !.gen = @ + 1]
        toolCall == [id |-> toolCallId, name |-> toolName, description |-> description,
                     startTime |-> now, status |-> "active"]
    IN  UpdateToolCallWidget([t1 EXCEPT !.active = Put(@, toolCallId, toolCall)])

StartToolCall(t, toolName, description, id) ==
    LET toolCallId == StartedId(t, id)
        t1 == IF Truthy(id) THEN t ELSE [t EXCEPT !.gen = @ + 1]
        toolCall == [id |-> toolCallId, name |-> toolName, description |-> description,
                     startTime |-> now, status |-> "active"]
    IN  IF toolCallId \in DOMAIN t1.active
        THEN t1
        ELSE UpdateToolCallWidget([t1 EXCEPT !.active = Put(@, toolCallId, toolCall)])

Completed(toolCall, result) ==
    [id |-> toolCall.id, name |-> toolCall.name, description |-> toolCall.description,
     startTime |-> toolCall.startTime, status |-> "completed", endTime |-> now,
     duration |-> now - toolCall.startTime, result |-> result]

(* the guard of completeToolCall without the status check *)
ShouldCompleteAnyStatus(t, toolCallId) == toolCallId \in DOMAIN t.active

ShouldComplete(t, toolCallId) ==
    /\ toolCallId \in DOMAIN t.active
    /\ t.active[toolCallId].status # "completed"

(* completeToolCall that makes a completed entry for an id it does not hold *)
CompleteToolCallUpserts(t, toolCallId, resultArg) ==
    LET result == IF resultArg = Undefined THEN Null ELSE resultArg
        unknown == [id |-> toolCallId, name |-> Undefined, description |-> Undefined,
                    startTime |-> now, status |-> "active"]
        held == IF toolCallId \in DOMAIN t.active THEN t.active[toolCallId] ELSE unknown
    IN  IF held.status # "completed"
        THEN LET t1 == UpdateToolCallWidget(
                          [t EXCEPT !.active = Put(Delete(@, toolCallId), toolCallId,
                                                   Completed(held, result))])
             IN  [t1 EXCEPT !.settle = Append(@, [id |-> toolCallId, atTeardown |-> FALSE])]
        ELSE t

(* completeToolCall with the setTimeout placed after the guarded block *)
CompleteToolCallAlwaysSettles(t, toolCallId, resultArg) ==
    LET result == IF resultArg = Undefined THEN Null ELSE resultArg
        t1 == IF ShouldComplete(t, toolCallId)
              THEN UpdateToolCallWidget(
                      [t EXCEPT !.active[toolCallId] = Completed(@, result)])
              ELSE t
    IN  [t1 EXCEPT !.settle = Append(@, [id |-> toolCallId, atTeardown |-> FALSE])]

CompleteToolCall(t, toolCallId, resultArg) ==
    LET result == IF resultArg = Undefined THEN Null ELSE resultArg
    IN  IF ShouldComplete(t, toolCallId)
        THEN LET t1 == UpdateToolCallWidget(
                          [t EXCEPT !.active[toolCallId] = Completed(@, result)])
             IN  [t1 EXCEPT !.settle = Append(@, [id |-> toolCallId, atTeardown |-> FALSE])]
        ELSE t

(* the body of the 2000 ms timer of completeToolCall; the listener it adds *)
(* is the timer's record                                                   *)
SettleCallback(t, timer) ==
    IF timer.id \in t.items
    THEN [t EXCEPT !.listeners = @ \cup {timer}]
    ELSE IF timer.id \in DOMAIN t.active
         THEN UpdateToolCallWidget([t EXCEPT !.active = Delete(@, timer.id)])
         ELSE t

(* the listener with slice(0, 10) in place of slice(-10) *)
MoveToHistoryKeepsOldest(t, listener) ==
    IF listener.id \in DOMAIN t.active
    THEN LET pushed == Append(t.history, t.active[listener.id])
         IN  UpdateToolCallWidget(
                [t EXCEPT !.history = IF Len(pushed) > ToolHistoryCap
                                      THEN SubSeq(pushed, 1, ToolHistoryCap) ELSE pushed,
                          !.active = Delete(@, listener.id)])
    ELSE [t EXCEPT !.listeners = @ \ {listener}]

(* the animationend listener the timer adds to the item element *)
MoveToHistory(t, listener) ==
    IF listener.id \in DOMAIN t.active
    THEN LET pushed == Append(t.history, t.active[listener.id])
         IN  UpdateToolCallWidget(
                [t EXCEPT !.history = IF Len(pushed) > ToolHistoryCap
                                      THEN SliceLast(pushed, ToolHistoryCap) ELSE pushed,
                          !.active = Delete(@, listener.id)])
    ELSE [t EXCEPT !.listeners = @ \ {listener}]

(* a missing (undefined) object-valued field *)
NoObject == [undefined |-> TRUE]

IsObject(v) == "undefined" \notin DOMAIN v

(* a handler that takes every event that is not a complete for a start *)
HandleToolCallEventStartsByDefault(t, event) ==
    IF ~IsObject(event) THEN t
    ELSE IF Field(event, "type") = "tool_call_complete"
         THEN CompleteToolCall(t, Field(event, "tool_id"),
                               JsOr(Field(event, "result"), Field(event, "error")))
    ELSE StartToolCall(t, Field(event, "tool_name"),
                       JsOr(Field(event, "description"),
                            "Executing " \o Str(Field(event, "tool_name"))),
                       Field(event, "tool_id"))

HandleToolCallEvent(t, event) ==
    IF ~IsObject(event) THEN t
    ELSE IF Field(event, "type") = "tool_call_start"
         THEN StartToolCall(t, Field(event, "tool_name"),
                            JsOr(Field(event, "description"),
                                 "Executing " \o Str(Field(event, "tool_name"))),
                            Field(event, "tool_id"))
    ELSE IF Field(event, "type") = "tool_call_complete"
         THEN CompleteToolCall(t, Field(event, "tool_id"),
                               JsOr(Field(event, "result"), Field(event, "error")))
    ELSE t

----------------------------------------------------------------------------
(* The chat history and the streamed reply *)

(* marked.parse throws on an undefined or null input *)
MarkedThrows(text) == text \in {Undefined, Null}

(* the text content of the HTML marked.parse renders for plain text: the *)
(* text as one paragraph, followed by a line break                        *)
MarkedText(text) == text \o "\n"

Turn(sender, message) ==
    [role |-> IF sender = "user" THEN "user" ELSE "assistant", content |-> message]

AddMessageToChat(history, message, sender) ==
    LET pushed == Append(history, Turn(sender, message))
    IN  IF Len(pushed) > ChatHistoryCap THEN SliceLast(pushed, ChatHistoryKeep) ELSE pushed

(* appendMessageChunk without the lookup of the streaming element *)
AppendMessageChunkAlwaysCreates(stream, chunk) ==
    IF MarkedThrows(chunk) THEN stream \o << <<>> >>
    ELSE stream \o << <<MarkedText(chunk)>> >>

(* the streaming element is a sequence of the pieces appended to its content; *)
(* it is created and attached before marked.parse(chunk) runs                 *)
AppendMessageChunk(stream, chunk) ==
    LET el == IF stream = <<>> THEN << <<>> >> ELSE stream
    IN  IF MarkedThrows(chunk) THEN el ELSE <<Append(el[1], MarkedText(chunk))>>

RECURSIVE TextContent(_)
TextContent(pieces) ==
    IF pieces = <<>> THEN "" ELSE Head(pieces) \o TextContent(Tail(pieces))

(* finalizeMessage without the test for the streaming element *)
FinalizeMessageUnguarded(history, stream) ==
    Append(history, Turn("assistant", IF stream = <<>> THEN "" ELSE TextContent(stream[1])))

FinalizeMessage(history, stream) ==
    IF stream # <<>>
    THEN Append(history, Turn("assistant", TextContent(stream[1])))
    ELSE history

Apology == "Sorry, I encountered an error processing your request. Please try again."

----------------------------------------------------------------------------
(* The connection *)

WsReadyState == IF sockets = <<>> THEN "NONE" ELSE sockets[Len(sockets)]

(* sockets that are closed and no longer this.ws fire no further event *)
Live(socks) ==
    SelectSeq([i \in DOMAIN socks |-> IF i = Len(socks) \/ socks[i] # "CLOSED"
                                      THEN socks[i] ELSE "GONE"],
              LAMBDA r : r # "GONE")

(* the delay computed from the count before its increment *)
ReconnectDelayBeforeIncrement(n) == Min(BaseDelay * Pow2(n - 1), DelayCap)

ReconnectDelay(n) == Min(BaseDelay * Pow2(n), DelayCap)

(* an off-by-one in the retry limit *)
CanRetryInclusive == retryCount <= maxRetries

CanRetry == retryCount < maxRetries

AttemptReconnect ==
    IF CanRetry
    THEN /\ retryCount' = retryCount + 1
         /\ reconnectTimers' = Append(reconnectTimers, ReconnectDelay(retryCount + 1))
         /\ delayLog' = Append(delayLog, ReconnectDelay(retryCount + 1))
         /\ UNCHANGED connectionLostNotices
    ELSE /\ connectionLostNotices' = connectionLostNotices + 1
         /\ UNCHANGED <<retryCount, reconnectTimers, delayLog>>

ConnectWebSocket(socks) == Live(Append(socks, "CONNECTING"))

(* onopen without the reset of retryCount *)
OnOpenKeepsRetries ==
    /\ isConnected' = TRUE
    /\ delayLog' = <<>>
    /\ UNCHANGED <<retryCount, reconnectTimers, connectionLostNotices>>

OnOpen ==
    /\ isConnected' = TRUE
    /\ retryCount' = 0
    /\ delayLog' = <<>>
    /\ UNCHANGED <<reconnectTimers, connectionLostNotices>>

(* onclose without the call of attemptReconnect *)
OnCloseNoReconnect ==
    /\ isConnected' = FALSE
    /\ UNCHANGED <<retryCount, reconnectTimers, delayLog, connectionLostNotices>>

OnClose ==
    /\ isConnected' = FALSE
    /\ AttemptReconnect

(* ws.close() *)
WsClose(socks) ==
    IF socks # <<>> /\ socks[Len(socks)] \in {"CONNECTING", "OPEN"}
    THEN [socks EXCEPT ![Len(socks)] = "CLOSING"]
    ELSE socks

(* a handler that drops the tool calls it finds *)
IdleResetsTracker ==
    SetTracker([Tracker EXCEPT !.active = <<>>, !.items = {}, !.listeners = {}])

Idle == SetTracker(Tracker)

(* init(): the first connectWebSocket *)
InitConnect ==
    /\ sockets = <<>>
    /\ sockets' = ConnectWebSocket(sockets)
    /\ Idle
    /\ UNCHANGED <<isConnected, retryCount, reconnectTimers, intervalsRunning,
                   connectionLostNotices, delayLog, chatVars, sendVars, widgetPresent, now>>
    /\ lastEvent' = [kind |-> "init"]

SocketOpens(i) ==
    /\ sockets[i] = "CONNECTING"
    /\ sockets' = [sockets EXCEPT ![i] = "OPEN"]
    /\ OnOpen
    /\ Idle
    /\ UNCHANGED <<intervalsRunning, chatVars, sendVars, widgetPresent, now>>
    /\ lastEvent' = [kind |-> "open", retries |-> retryCount]

CloseEvent(i, cause) ==
    /\ lastEvent' = [kind |-> cause, wasOpen |-> isConnected]
    /\ sockets' = Live([sockets EXCEPT ![i] = "CLOSED"])
    /\ OnClose
    /\ Idle
    /\ UNCHANGED <<intervalsRunning, chatVars, sendVars, widgetPresent, now>>

(* the handshake fails: the error event (onerror only logs), then the close event *)
ConnectionFails(i) ==
    /\ sockets[i] = "CONNECTING"
    /\ CloseEvent(i, "connection_failed")

(* the open channel breaks: the error event, then the close event *)
TransportError(i) ==
    /\ sockets[i] = "OPEN"
    /\ CloseEvent(i, "transport_error")

(* the server closes the open channel: the close event *)
ServerCloses(i) ==
    /\ sockets[i] = "OPEN"
    /\ CloseEvent(i, "server_close")

(* a close the client asked for completes: the close event *)
CloseCompletes(i) ==
    /\ sockets[i] = "CLOSING"
    /\ CloseEvent(i, "close_completed")

(* the reconnect timer set with setInterval: it stays pending when it fires *)
ReconnectTimerRepeats(k) ==
    /\ k \in DOMAIN reconnectTimers
    /\ UNCHANGED reconnectTimers
    /\ sockets' = ConnectWebSocket(sockets)
    /\ Idle
    /\ UNCHANGED <<isConnected, retryCount, intervalsRunning, connectionLostNotices,
                   delayLog, chatVars, sendVars, widgetPresent, now>>
    /\ lastEvent' = [kind |-> "reconnect_timer", delay |-> reconnectTimers[k]]

ReconnectTimerFires(k) ==
    /\ k \in DOMAIN reconnectTimers
    /\ reconnectTimers' = RemoveAt(reconnectTimers, k)
    /\ sockets' = ConnectWebSocket(sockets)
    /\ Idle
    /\ UNCHANGED <<isConnected, retryCount, intervalsRunning, connectionLostNotices,
                   delayLog, chatVars, sendVars, widgetPresent, now>>
    /\ lastEvent' = [kind |-> "reconnect_timer", delay |-> reconnectTimers[k]]

MarkAtTeardown(timers) == [k \in DOMAIN timers |-> [timers[k] EXCEPT !.atTeardown = TRUE]]

Destroy ==
    /\ sockets # <<>>
    /\ intervalsRunning' = FALSE
    /\ sockets' = WsClose(sockets)
    /\ SetTracker([Tracker EXCEPT !.settle = MarkAtTeardown(@)])
    /\ UNCHANGED <<isConnected, retryCount, reconnectTimers, connectionLostNotices,
                   delayLog, chatVars, sendVars, widgetPresent, now>>
    /\ lastEvent' = [kind |-> "destroy"]

Tick ==
    /\ now < MaxNow
    /\ now' = now + 1
    /\ Idle
    /\ UNCHANGED <<connVars, chatVars, sendVars, widgetPresent>>
    /\ lastEvent' = [kind |-> "tick"]

----------------------------------------------------------------------------
(* Frames received on the channel *)

(* JSON.parse(event.data) throws on text that is not JSON *)
ParseFails(raw) == "json" \notin DOMAIN raw

EventOf(data) == IF "event" \in DOMAIN data THEN data.event ELSE NoObject

(* a dispatch whose default branch shows the message of the frame *)
ChatAfterFrameShowsUnknown(data) ==
    LET type == Field(data, "type")
    IN  IF type = "chat_response_end"
        THEN FinalizeMessage(chatHistory, streamingMessage)
        ELSE IF type \notin {"welcome", "iss_update", "chat_response_chunk",
                             "tool_call_event", "error"}
                /\ ~MarkedThrows(Field(data, "message"))
        THEN AddMessageToChat(chatHistory, data.message, "assistant")
        ELSE chatHistory

(* handleWebSocketMessage throws (and onmessage catches) when a handler does *)
ChatAfterFrame(data) ==
    LET type == Field(data, "type")
    IN  IF type = "chat_response" /\ ~MarkedThrows(Field(data, "message"))
        THEN AddMessageToChat(chatHistory, data.message, "assistant")
        ELSE IF type = "chat_response_end"
        THEN FinalizeMessage(chatHistory, streamingMessage)
        ELSE chatHistory

StreamAfterFrame(data) ==
    LET type == Field(data, "type")
    IN  IF type = "chat_response_chunk"
        THEN AppendMessageChunk(streamingMessage, Field(data, "chunk"))
        ELSE IF type = "chat_response_end"
        THEN <<>>
        ELSE streamingMessage

TrackerAfterFrame(data) ==
    IF Field(data, "type") = "tool_call_event"
    THEN HandleToolCallEvent(Tracker, EventOf(data))
    ELSE Tracker

HandleWebSocketMessage(data) ==
    /\ chatHistory' = ChatAfterFrame(data)
    /\ streamingMessage' = StreamAfterFrame(data)
    /\ SetTracker(TrackerAfterFrame(data))

OnMessage(i, raw) ==
    /\ sockets[i] \in {"OPEN", "CLOSING"}
    /\ IF ParseFails(raw)
       THEN UNCHANGED chatVars /\ Idle
       ELSE HandleWebSocketMessage(raw.json)
    /\ UNCHANGED <<connVars, sendVars, widgetPresent, now>>
    /\ lastEvent' = [kind |-> "message", frame |-> raw]

----------------------------------------------------------------------------
(* Timers of the tracker *)

SettleTimerFires ==
    /\ settleTimers # <<>>
    /\ SetTracker(SettleCallback([Tracker EXCEPT !.settle = Tail(@)], Head(settleTimers)))
    /\ UNCHANGED <<connVars, chatVars, sendVars, widgetPresent, now>>
    /\ lastEvent' = [kind |-> "settle_timer", timer |-> Head(settleTimers)]

AnimationEnds(listener) ==
    /\ listener \in exitListeners
    /\ SetTracker(MoveToHistory(Tracker, listener))
    /\ UNCHANGED <<connVars, chatVars, sendVars, widgetPresent, now>>
    /\ lastEvent' = [kind |-> "animationend", listener |-> listener]

SimTimerFires(id) ==
    /\ id \in simTimers
    /\ SetTracker(CompleteToolCall([Tracker EXCEPT !.sim = @ \ {id}], id, Undefined))
    /\ UNCHANGED <<connVars, chatVars, sendVars, widgetPresent, now>>
    /\ lastEvent' = [kind |-> "sim_timer", id |-> id]

----------------------------------------------------------------------------
(* Sending a chat message *)

Trim(text) == IF text \in {"", " ", "  "} THEN "" ELSE text

(* message.toLowerCase().includes(word), for the messages the model sends *)
Includes(message, word) ==
    <<message, word>> \in {<<"find mars", "find">>, <<"read the web", "read">>,
                           <<"read the web", "web">>}

SimulateOne(t, hit, toolName, description) ==
    IF hit
    THEN LET id == StartedId(t, Null)
             t1 == StartToolCall(t, toolName, description, Null)
         IN  [t1 EXCEPT !.sim = @ \cup {id}]
    ELSE t

SimulateToolCallsFromMessage(t, message) ==
    LET t1 == SimulateOne(t, Includes(message, "search") \/ Includes(message, "find"),
                          "codebase_search",
                          "Searching through codebase for relevant information")
        t2 == SimulateOne(t1, Includes(message, "file") \/ Includes(message, "read"),
                          "read_file", "Reading file contents")
    IN  SimulateOne(t2, Includes(message, "web") \/ Includes(message, "internet")
                           \/ Includes(message, "online"),
                    "web_search", "Searching the web for information")

(* the send decided on the isConnected flag alone *)
UseChannelFlagOnly == isConnected

UseChannel == isConnected /\ WsReadyState = "OPEN"

(* the body built from the history as it was before the push of the message *)
OutboundBeforePush(message, history) ==
    [message |-> message,
     chat_history |-> SliceLast(SubSeq(history, 1, Len(history) - 1), OutboundHistory)]

Outbound(message, history) ==
    [message |-> message, chat_history |-> SliceLast(history, OutboundHistory)]

ChatFrame(message, history) ==
    [type |-> "chat", message |-> message,
     chat_history |-> SliceLast(history, OutboundHistory)]

SendMessage(input) ==
    LET message == Trim(input)
    IN  /\ sockets # <<>>
        /\ IF message = ""
           THEN UNCHANGED <<chatVars, sendVars>> /\ Idle
           ELSE /\ chatHistory' = AddMessageToChat(chatHistory, message, "user")
                /\ UNCHANGED streamingMessage
                /\ IF UseChannel
                   THEN /\ Idle
                        /\ wsSent' = Append(wsSent, ChatFrame(message, chatHistory'))
                        /\ UNCHANGED httpPending
                   ELSE /\ SetTracker(SimulateToolCallsFromMessage(Tracker, message))
                        /\ httpPending' = Append(httpPending, Outbound(message, chatHistory'))
                        /\ UNCHANGED wsSent
        /\ UNCHANGED <<connVars, widgetPresent, now>>
        /\ lastEvent' = [kind |-> "send", input |-> input]

(* the replay with evt.result in place of evt.result || evt.error *)
RECURSIVE ReplayResultOnly(_, _)
ReplayResultOnly(t, events) ==
    IF events = <<>> THEN t
    ELSE LET evt == Head(events)
             type == Field(evt, "type")
             t1 == IF ~IsObject(evt) \/ ~Truthy(type) THEN t
                   ELSE IF type = "tool_call_start"
                   THEN StartToolCall(t, Field(evt, "tool_name"),
                                      JsOr(Field(evt, "description"),
                                           "Executing " \o Str(Field(evt, "tool_name"))),
                                      Field(evt, "tool_id"))
                   ELSE IF type = "tool_call_complete"
                   THEN CompleteToolCall(t, Field(evt, "tool_id"), Field(evt, "result"))
                   ELSE t
         IN  ReplayResultOnly(t1, Tail(events))

RECURSIVE Replay(_, _)
Replay(t, events) ==
    IF events = <<>> THEN t
    ELSE LET evt == Head(events)
             type == Field(evt, "type")
             t1 == IF ~IsObject(evt) \/ ~Truthy(type) THEN t
                   ELSE IF type = "tool_call_start"
                   THEN StartToolCall(t, Field(evt, "tool_name"),
                                      JsOr(Field(evt, "description"),
                                           "Executing " \o Str(Field(evt, "tool_name"))),
                                      Field(evt, "tool_id"))
                   ELSE IF type = "tool_call_complete"
                   THEN CompleteToolCall(t, Field(evt, "tool_id"),
                                         JsOr(Field(evt, "result"), Field(evt, "error")))
                   ELSE t
         IN  Replay(t1, Tail(events))

(* the fetch settles with a 2xx response whose body is data *)
HttpResponds(k, data) ==
    /\ k \in DOMAIN httpPending
    /\ httpPending' = RemoveAt(httpPending, k)
    /\ IF MarkedThrows(Field(data, "response"))
       THEN /\ chatHistory' = AddMessageToChat(chatHistory, Apology, "assistant")
            /\ Idle
       ELSE /\ chatHistory' = AddMessageToChat(chatHistory, data.response, "assistant")
            /\ SetTracker(IF "tool_call_events" \in DOMAIN data
                          THEN Replay(Tracker, data.tool_call_events)
                          ELSE Tracker)
    /\ UNCHANGED <<connVars, streamingMessage, wsSent, widgetPresent, now>>
    /\ lastEvent' = [kind |-> "http_response", data |-> data]

(* a catch that only logs *)
HttpFailsSilently(k) ==
    /\ k \in DOMAIN httpPending
    /\ httpPending' = RemoveAt(httpPending, k)
    /\ UNCHANGED chatHistory
    /\ Idle
    /\ UNCHANGED <<connVars, streamingMessage, wsSent, widgetPresent, now>>
    /\ lastEvent' = [kind |-> "http_failure"]

(* the fetch rejects, or the response is not 2xx *)
HttpFails(k) ==
    /\ k \in DOMAIN httpPending
    /\ httpPending' = RemoveAt(httpPending, k)
    /\ chatHistory' = AddMessageToChat(chatHistory, Apology, "assistant")
    /\ Idle
    /\ UNCHANGED <<connVars, streamingMessage, wsSent, widgetPresent, now>>
    /\ lastEvent' = [kind |-> "http_failure"]

----------------------------------------------------------------------------
(* The state after construction: init() has set up the refresh intervals and *)
(* is about to call connectWebSocket                                         *)

Init ==
    /\ sockets = <<>>
    /\ isConnected = FALSE
    /\ retryCount = 0
    /\ reconnectTimers = <<>>
    /\ intervalsRunning = TRUE
    /\ connectionLostNotices = 0
    /\ delayLog = <<>>
    /\ chatHistory = <<>>
    /\ streamingMessage = <<>>
    /\ wsSent = <<>>
    /\ httpPending = <<>>
    /\ activeToolCalls = <<>>
    /\ toolCallHistory = <<>>
    /\ settleTimers = <<>>
    /\ simTimers = {}
    /\ toolCallItems = {}
    /\ exitListeners = {}
    /\ genCount = 0
    /\ widgetUpdates = 0
    /\ widgetPresent \in BOOLEAN
    /\ lastEvent = [kind |-> "construct"]
    /\ now = 0

UserTurns == Len(SelectSeq(chatHistory, LAMBDA turn : turn.role = "user"))

----------------------------------------------------------------------------
(* The connection and the two transports of a chat message *)

ConnInputs == {"hi", "  "}

ConnReplies == {[response |-> "Mars is cold."], [error |-> "no response"]}

ConnNext ==
    \/ InitConnect
    \/ \E i \in DOMAIN sockets : SocketOpens(i)
    \/ \E i \in DOMAIN sockets : ConnectionFails(i)
    \/ \E i \in DOMAIN sockets : TransportError(i)
    \/ \E i \in DOMAIN sockets : ServerCloses(i)
    \/ \E i \in DOMAIN sockets : CloseCompletes(i)
    \/ \E k \in DOMAIN reconnectTimers : ReconnectTimerFires(k)
    \/ Destroy
    \/ \E input \in ConnInputs : UserTurns < MaxSends /\ SendMessage(input)
    \/ \E k \in DOMAIN httpPending, data \in ConnReplies : HttpResponds(k, data)
    \/ \E k \in DOMAIN httpPending : HttpFails(k)

SpecConn == Init /\ [][ConnNext]_vars

----------------------------------------------------------------------------
(* The tool-call tracker driven by tool_call_event frames *)

ToolFrame(event) == [json |-> [type |-> "tool_call_event", event |-> event]]

StartEvent(id, name) == [type |-> "tool_call_start", tool_id |-> id, tool_name |-> name]

CompleteEvent(id, result) ==
    [type |-> "tool_call_complete", tool_id |-> id, tool_name |-> "get_iss_location",
     result |-> result]

DescribedStartEvent(id, name, description) ==
    [type |-> "tool_call_start", tool_id |-> id, tool_name |-> name,
     description |-> description]

StartEvents ==
    {StartEvent("t1", "get_iss_location"),
     DescribedStartEvent("t1", "get_apod", "Fetching picture"),
     StartEvent("t2", "get_apod")}

CompleteEvents == {CompleteEvent("t1", "ok"), CompleteEvent("t1", "late"),
                   CompleteEvent("t2", "ok"), CompleteEvent("t2", "")}

IsStart(raw) ==
    /\ ~ParseFails(raw)
    /\ Field(raw.json, "type") = "tool_call_event"
    /\ Field(EventOf(raw.json), "type") = "tool_call_start"

IsComplete(raw) ==
    /\ ~ParseFails(raw)
    /\ Field(raw.json, "type") = "tool_call_event"
    /\ Field(EventOf(raw.json), "type") = "tool_call_complete"

Tracked == Cardinality(DOMAIN activeToolCalls) + Len(toolCallHistory)

ToolNext ==
    \/ InitConnect
    \/ \E i \in DOMAIN sockets : SocketOpens(i)
    \/ \E i \in DOMAIN sockets, event \in StartEvents :
          Tracked < MaxCalls /\ OnMessage(i, ToolFrame(event))
    \/ \E i \in DOMAIN sockets, event \in CompleteEvents : OnMessage(i, ToolFrame(event))
    \/ SettleTimerFires
    \/ \E listener \in exitListeners : AnimationEnds(listener)
    \/ Tick

SpecTool == Init /\ [][ToolNext]_vars

----------------------------------------------------------------------------
(* Teardown while tool calls settle, in the page that holds the widget *)

InitWidget == Init /\ widgetPresent

TeardownNext ==
    \/ InitConnect
    \/ \E i \in DOMAIN sockets : SocketOpens(i)
    \/ \E i \in DOMAIN sockets :
          Tracked < MaxCalls /\ OnMessage(i, ToolFrame(StartEvent("t1", "get_iss_location")))
    \/ \E i \in DOMAIN sockets : OnMessage(i, ToolFrame(CompleteEvent("t1", "ok")))
    \/ SettleTimerFires
    \/ \E listener \in exitListeners : AnimationEnds(listener)
    \/ Destroy
    \/ \E i \in DOMAIN sockets : CloseCompletes(i)
    \/ Tick

SpecTeardown == InitWidget /\ [][TeardownNext]_vars

----------------------------------------------------------------------------
(* Frame dispatch: well-formed frames and frames that are not *)

Frame(data) == [json |-> data]

Garbage == [text |-> "not json"]

BadFrames ==
    {Garbage,
     Frame([message |-> "Hi"]),
     Frame([type |-> "chat_response"]),
     Frame([type |-> "chat_response_chunk"]),
     Frame([type |-> "tool_call_event"]),
     ToolFrame([type |-> "tool_call_start", tool_name |-> "get_apod"]),
     ToolFrame([type |-> "tool_call_complete", tool_name |-> "get_apod"])}

(* the frame tags handleWebSocketMessage has a case for *)
KnownTags ==
    {"welcome", "iss_update", "chat_response", "chat_response_chunk", "chat_response_end",
     "tool_call_event", "error"}

GoodFrames ==
    {Frame([type |-> "welcome", message |-> "Welcome"]),
     Frame([type |-> "pong"]),
     Frame([type |-> "error", message |-> "overloaded"]),
     Frame([type |-> "chat_response", message |-> "Hi"]),
     Frame([type |-> "chat_response_chunk", chunk |-> "Hello "]),
     Frame([type |-> "chat_response_chunk", chunk |-> "world"]),
     Frame([type |-> "chat_response_end"]),
     ToolFrame(StartEvent("t1", "get_iss_location")),
     ToolFrame(CompleteEvent("t1", "ok"))}

Chunks == IF streamingMessage = <<>> THEN 0 ELSE Len(streamingMessage[1])

WithinFrameBounds ==
    /\ Len(chatHistory) < MaxTurns
    /\ Chunks < MaxChunks
    /\ Tracked < MaxCalls
    /\ genCount < MaxGen

FramesNext ==
    \/ InitConnect
    \/ \E i \in DOMAIN sockets : SocketOpens(i)
    \/ \E i \in DOMAIN sockets, raw \in GoodFrames : WithinFrameBounds /\ OnMessage(i, raw)
    \/ \E i \in DOMAIN sockets, raw \in BadFrames : WithinFrameBounds /\ OnMessage(i, raw)
    \/ SettleTimerFires
    \/ \E listener \in exitListeners : AnimationEnds(listener)
    \/ Tick

SpecFrames == Init /\ [][FramesNext]_vars

----------------------------------------------------------------------------
(* A long run of tool calls, in the page that holds the widget: the backend  *)
(* reports the calls of HistoryIds in this order, each one after the one     *)
(* before it has settled                                                     *)

HistoryIds == <<"c01", "c02", "c03", "c04", "c05", "c06", "c07", "c08", "c09", "c10",
                "c11", "c12", "c13", "c14">>

IdIndex(id) == CHOOSE k \in DOMAIN HistoryIds : HistoryIds[k] = id

TrackedIds == DOMAIN activeToolCalls \cup {toolCallHistory[k].id : k \in DOMAIN toolCallHistory}

(* the calls are started in order, so the next one follows the latest tracked *)
NextCall ==
    IF TrackedIds = {} THEN 1
    ELSE 1 + (CHOOSE k \in DOMAIN HistoryIds :
                 /\ HistoryIds[k] \in TrackedIds
                 /\ \A id \in TrackedIds : IdIndex(id) <= k)

HistoryNext ==
    \/ InitConnect
    \/ \E i \in DOMAIN sockets : SocketOpens(i)
    \/ \E i \in DOMAIN sockets :
          /\ NextCall <= MaxHistoryCalls
          /\ activeToolCalls = <<>>
          /\ OnMessage(i, ToolFrame(StartEvent(HistoryIds[NextCall], "get_iss_location")))
    \/ \E i \in DOMAIN sockets, id \in DOMAIN activeToolCalls :
          OnMessage(i, ToolFrame(CompleteEvent(id, "ok")))
    \/ SettleTimerFires
    \/ \E listener \in exitListeners : AnimationEnds(listener)
    \/ Tick

SpecHistory == InitWidget /\ [][HistoryNext]_vars

----------------------------------------------------------------------------
(* A long conversation on the open channel: the user's messages, whole       *)
(* replies and streamed replies                                              *)

WholeReply == Frame([type |-> "chat_response", message |-> "Hi"])

ReplyChunk == Frame([type |-> "chat_response_chunk", chunk |-> "Hi"])

ReplyEnd == Frame([type |-> "chat_response_end"])

StreamedTurns ==
    Len(SelectSeq(chatHistory, LAMBDA turn : turn.role = "assistant" /\ turn.content # "Hi"))

ChatNext ==
    \/ InitConnect
    \/ \E i \in DOMAIN sockets : SocketOpens(i)
    \/ Len(wsSent) + Len(httpPending) < MaxSends /\ SendMessage("hi")
    \/ \E i \in DOMAIN sockets : OnMessage(i, WholeReply)
    \/ \E i \in DOMAIN sockets :
          StreamedTurns < MaxStreamed /\ Chunks < MaxChunks /\ OnMessage(i, ReplyChunk)
    \/ \E i \in DOMAIN sockets : OnMessage(i, ReplyEnd)

SpecChat == Init /\ [][ChatNext]_vars

----------------------------------------------------------------------------
(* Replies on the open channel, whole and streamed in chunks *)

StreamFrames ==
    {Frame([type |-> "chat_response_chunk", chunk |-> "Hello "]),
     Frame([type |-> "chat_response_chunk", chunk |-> "world"]),
     ReplyEnd,
     WholeReply}

(* a streamed reply has at most MaxChunks chunks *)
ChunkAllowed(raw) == (Field(raw.json, "type") = "chat_response_chunk") => Chunks < MaxChunks

StreamNext ==
    \/ InitConnect
    \/ \E i \in DOMAIN sockets : SocketOpens(i)
    \/ \E i \in DOMAIN sockets, raw \in StreamFrames :
          Len(chatHistory) <= MaxStreamed /\ ChunkAllowed(raw) /\ OnMessage(i, raw)

SpecStream == Init /\ [][StreamNext]_vars

----------------------------------------------------------------------------
(* Messages sent on the fallback path as well as on the channel, and the    *)
(* responses to the fallback requests                                       *)

SendInputs == {"hi", "find mars", "read the web"}

SendReplies ==
    {[response |-> "Mars is cold.",
      tool_call_events |-> <<StartEvent("t1", "get_mars_weather"), CompleteEvent("t1", "-60C")>>],
     [response |-> "Nothing found.",
      tool_call_events |-> <<StartEvent("t2", "get_apod"), CompleteEvent("t2", "")>>],
     [response |-> "Out of order.",
      tool_call_events |-> <<CompleteEvent("t1", "-60C"), StartEvent("t1", "get_mars_weather")>>],
     [response |-> "Twice.",
      tool_call_events |-> <<StartEvent("t1", "get_mars_weather"),
                             DescribedStartEvent("t1", "get_apod", "Fetching picture"),
                             [type |-> "tool_call_complete", tool_id |-> "t1", error |-> "timeout"],
                             CompleteEvent("t1", "late")>>],
     [response |-> "Odd events.",
      tool_call_events |-> <<[tool_name |-> "get_apod"],
                             [type |-> "tool_call_progress", tool_id |-> "t1"],
                             [type |-> "tool_call_start", tool_name |-> "get_apod"]>>],
     [response |-> "Hello."]}

(* the events of a list delivered one by one as tool_call_event frames *)
RECURSIVE DeliverLive(_, _)
DeliverLive(t, events) ==
    IF events = <<>> THEN t
    ELSE DeliverLive(HandleToolCallEvent(t, Head(events)), Tail(events))

SendNext ==
    \/ InitConnect
    \/ \E i \in DOMAIN sockets : SocketOpens(i)
    \/ \E input \in SendInputs : UserTurns < MaxSends /\ SendMessage(input)
    \/ \E k \in DOMAIN httpPending, data \in SendReplies : HttpResponds(k, data)
    \/ \E k \in DOMAIN httpPending : HttpFails(k)
    \/ \E id \in simTimers : SimTimerFires(id)
    \/ SettleTimerFires
    \/ \E listener \in exitListeners : AnimationEnds(listener)
    \/ Tick

SpecSend == Init /\ [][SendNext]_vars

(* the fallback path alone, before the channel has opened *)
ReplayNext ==
    \/ InitConnect
    \/ \E input \in SendInputs : UserTurns < MaxSends /\ SendMessage(input)
    \/ \E k \in DOMAIN httpPending, data \in SendReplies : HttpResponds(k, data)
    \/ \E id \in simTimers : SimTimerFires(id)

SpecReplay == Init /\ [][ReplayNext]_vars

----------------------------------------------------------------------------
(* The second definition of class AntrikshGPT in script.js (lines 1432-2403) *)
(* has the same connection code and chat history, and no tool-call tracker;  *)
(* its sendMessage differs from the first one's                              *)

ChatFrameSecond(message) == [type |-> "chat", message |-> message]

SendMessageSecond(input) ==
    LET message == Trim(input)
    IN  /\ sockets # <<>>
        /\ IF message = ""
           THEN UNCHANGED <<chatVars, sendVars>>
           ELSE /\ chatHistory' = AddMessageToChat(chatHistory, message, "user")
                /\ UNCHANGED streamingMessage
                /\ IF UseChannel
                   THEN /\ wsSent' = Append(wsSent, ChatFrameSecond(message))
                        /\ UNCHANGED httpPending
                   ELSE /\ httpPending' = Append(httpPending, Outbound(message, chatHistory'))
                        /\ UNCHANGED wsSent
        /\ Idle
        /\ UNCHANGED <<connVars, widgetPresent, now>>
        /\ lastEvent' = [kind |-> "send", input |-> input]

SecondNext ==
    \/ InitConnect
    \/ \E i \in DOMAIN sockets : SocketOpens(i)
    \/ \E i \in DOMAIN sockets : ServerCloses(i)
    \/ \E k \in DOMAIN reconnectTimers : ReconnectTimerFires(k)
    \/ \E input \in ConnInputs : Len(chatHistory) < MaxTurns /\ SendMessageSecond(input)
    \/ \E i \in DOMAIN sockets : Len(chatHistory) < MaxTurns /\ OnMessage(i, WholeReply)
    \/ \E k \in DOMAIN httpPending : HttpFails(k)

SpecSecond == Init /\ [][SecondNext]_vars

----------------------------------------------------------------------------
(* A session that loses and regains its channel while it holds a             *)
(* conversation and tool calls                                               *)

SessionFrames ==
    {WholeReply,
     ToolFrame(StartEvent("t1", "get_iss_location")),
     ToolFrame(CompleteEvent("t1", "ok"))}

SessionNext ==
    \/ InitConnect
    \/ \E i \in DOMAIN sockets : SocketOpens(i)
    \/ \E i \in DOMAIN sockets : ConnectionFails(i)
    \/ \E i \in DOMAIN sockets : TransportError(i)
    \/ \E i \in DOMAIN sockets : ServerCloses(i)
    \/ \E k \in DOMAIN reconnectTimers : ReconnectTimerFires(k)
    \/ \E i \in DOMAIN sockets, raw \in SessionFrames :
          Len(chatHistory) < MaxTurns /\ Tracked < MaxCalls /\ OnMessage(i, raw)
    \/ SettleTimerFires
    \/ \E listener \in exitListeners : AnimationEnds(listener)

SpecSession == Init /\ [][SessionNext]_vars

----------------------------------------------------------------------------
(* Frames the dispatch has no consumer for, received while the session holds *)
(* a conversation, a streamed reply and tool calls                           *)

UnknownFrames ==
    {Frame([type |-> "typing", message |-> "Hi", chunk |-> "Hi"]),
     Frame([type |-> "tool_call_start", tool_id |-> "t2", tool_name |-> "get_apod"]),
     Frame([message |-> "Hi"])}

DroppedToolFrames ==
    {Frame([type |-> "tool_call_event"]),
     ToolFrame([type |-> "tool_call_progress", tool_id |-> "t1", tool_name |-> "get_apod",
                result |-> "ok"]),
     ToolFrame([tool_id |-> "t2", tool_name |-> "get_apod"])}

DispatchFrames == SessionFrames \cup {ReplyChunk, ReplyEnd}

DispatchNext ==
    \/ InitConnect
    \/ \E i \in DOMAIN sockets : SocketOpens(i)
    \/ \E i \in DOMAIN sockets, raw \in DispatchFrames :
          /\ Len(chatHistory) <= MaxStreamed
          /\ Tracked < MaxCalls
          /\ ChunkAllowed(raw)
          /\ OnMessage(i, raw)
    \/ \E i \in DOMAIN sockets, raw \in UnknownFrames : OnMessage(i, raw)
    \/ \E i \in DOMAIN sockets, raw \in DroppedToolFrames : OnMessage(i, raw)
    \/ SettleTimerFires
    \/ \E listener \in exitListeners : AnimationEnds(listener)

SpecDispatch == Init /\ [][DispatchNext]_vars

----------------------------------------------------------------------------
(* A streamed reply that the loss of the channel interrupts *)

ResumeFrames ==
    {Frame([type |-> "chat_response_chunk", chunk |-> "Hello "]),
     Frame([type |-> "chat_response_chunk", chunk |-> "world"]),
     ReplyEnd}

ResumeNext ==
    \/ InitConnect
    \/ \E i \in DOMAIN sockets : SocketOpens(i)
    \/ \E i \in DOMAIN sockets : ServerCloses(i)
    \/ \E k \in DOMAIN reconnectTimers : ReconnectTimerFires(k)
    \/ \E i \in DOMAIN sockets, raw \in ResumeFrames :
          Len(chatHistory) <= MaxStreamed /\ ChunkAllowed(raw) /\ OnMessage(i, raw)

SpecResume == Init /\ [][ResumeNext]_vars

----------------------------------------------------------------------------
(* A conversation whose messages go out on the channel or, while the channel *)
(* is down, on the fallback path                                             *)

OutboundNext ==
    \/ InitConnect
    \/ \E i \in DOMAIN sockets : SocketOpens(i)
    \/ \E i \in DOMAIN sockets : ServerCloses(i)
    \/ \E k \in DOMAIN reconnectTimers : ReconnectTimerFires(k)
    \/ \E input \in ConnInputs : Len(chatHistory) < MaxTurns /\ SendMessage(input)
    \/ \E i \in DOMAIN sockets : Len(chatHistory) < MaxTurns /\ OnMessage(i, WholeReply)
    \/ \E k \in DOMAIN httpPending : HttpFails(k)

SpecOutbound == Init /\ [][OutboundNext]_vars

----------------------------------------------------------------------------
(* Properties of the connection (SpecConn) *)

Destroyed == ~intervalsRunning

BackoffSchedule == <<2000, 4000, 8000, 16000, 30000>>

(* C1: the n-th reconnect attempt scheduled since the last successful open   *)
(* (n = 1..5) is scheduled after min(1000 * 2^n, 30000) ms, that is after    *)
(* 2000, 4000, 8000, 16000, 30000 ms in that order, and a pending reconnect  *)
(* timer carries the delay of the latest attempt.                            *)
C1_BackoffLaw ==
    /\ Len(delayLog) <= Len(BackoffSchedule)
    /\ \A n \in DOMAIN delayLog :
          /\ delayLog[n] = Min(1000 * 2^n, 30000)
          /\ delayLog[n] = BackoffSchedule[n]
    /\ \A k \in DOMAIN reconnectTimers :
          delayLog # <<>> /\ reconnectTimers[k] = delayLog[Len(delayLog)]

C1_Witness == delayLog = BackoffSchedule /\ reconnectTimers = <<30000>>

Exhausted == retryCount = 5 /\ reconnectTimers = <<>> /\ WsReadyState = "CLOSED"

(* C2: after 5 failed reconnect attempts in a row no 6th attempt is          *)
(* scheduled, the 'Connection lost' notification is shown exactly once, and  *)
(* from then on no socket is created and no reconnect timer is set.          *)
C2_ExhaustionIsTerminal ==
    /\ [](/\ Len(delayLog) <= 5
          /\ retryCount <= 5
          /\ connectionLostNotices <= 1
          /\ (connectionLostNotices = 1) <=> Exhausted)
    /\ [][Exhausted => /\ connectionLostNotices' = 1
                       /\ UNCHANGED <<sockets, reconnectTimers, retryCount, isConnected>>]_vars

C2_Witness ==
    /\ Exhausted
    /\ connectionLostNotices = 1
    /\ Len(delayLog) = 5
    /\ lastEvent.kind = "destroy"

(* C3: a socket that is open leaves retryCount at 0, and the outage that     *)
(* follows a successful open schedules its first reconnect after 2000 ms,    *)
(* however many attempts the outage before the open used.                    *)
C3_OpenResetsBackoff ==
    /\ []((\E i \in DOMAIN sockets : sockets[i] = "OPEN") => retryCount = 0 /\ isConnected)
    /\ [](lastEvent.kind = "open" => retryCount = 0)
    /\ [][isConnected /\ ~isConnected' =>
              /\ retryCount' = 1
              /\ reconnectTimers' = Append(reconnectTimers, 2000)]_vars

C3_Witness == lastEvent = [kind |-> "open", retries |-> 5] /\ retryCount = 0

(* C4: once destroy() has run, no reconnect timer is pending, none is set    *)
(* and connectWebSocket is not called again.                                 *)
C4_TeardownCancelsReconnect ==
    [][Destroyed => /\ Len(reconnectTimers') <= Len(reconnectTimers)
                    /\ lastEvent'.kind # "reconnect_timer"
                    /\ \A i \in DOMAIN sockets' : sockets'[i] # "CONNECTING"]_vars

(* C6: a chat frame is handed to the socket only while the socket is open,   *)
(* and a sendMessage of a non-empty text made while the socket is not open   *)
(* sends nothing on the socket and issues the fallback request with it.      *)
C6_SendOnlyWhenOpen ==
    /\ [][wsSent' # wsSent => (WsReadyState = "OPEN" /\ httpPending' = httpPending)]_vars
    /\ [][\A input \in ConnInputs :
             (SendMessage(input) /\ Trim(input) # "" /\ WsReadyState # "OPEN") =>
                 /\ wsSent' = wsSent
                 /\ Len(httpPending') = Len(httpPending) + 1
                 /\ httpPending'[Len(httpPending')].message = Trim(input)]_vars

C6_Witness ==
    /\ lastEvent.kind = "send"
    /\ WsReadyState = "CLOSING"
    /\ isConnected
    /\ wsSent = <<>>
    /\ Len(httpPending) = 1

(* C7: when the open channel closes unasked or breaks, isConnected becomes   *)
(* false and the reconnection policy runs: with retries left one reconnect   *)
(* timer is set and retryCount grows by one.                                 *)
C7_UnsolicitedCloseReconnects ==
    [][(WsReadyState = "OPEN" /\ WsReadyState' = "CLOSED") =>
          /\ ~isConnected'
          /\ IF retryCount < 5
             THEN /\ retryCount' = retryCount + 1
                  /\ Len(reconnectTimers') = Len(reconnectTimers) + 1
             ELSE connectionLostNotices' = connectionLostNotices + 1]_vars

C7_Witness ==
    /\ lastEvent = [kind |-> "transport_error", wasOpen |-> TRUE]
    /\ ~isConnected
    /\ Len(reconnectTimers) = 1
    /\ ~Destroyed

AssistantTurns == Len(SelectSeq(chatHistory, LAMBDA turn : turn.role = "assistant"))

(* C34: when the request of a send on the fallback path settles, one         *)
(* assistant turn is appended to the chat history: the response text when    *)
(* the response is 2xx and has one, the apology otherwise; so every user     *)
(* turn has its assistant turn, or its request still pending or its frame    *)
(* sent on the channel.                                                      *)
C34_SettledRequestAppendsOneTurn ==
    /\ [](AssistantTurns + Len(httpPending) + Len(wsSent) = UserTurns)
    /\ [][lastEvent'.kind \in {"http_response", "http_failure"} =>
             /\ Len(httpPending') = Len(httpPending) - 1
             /\ chatHistory' =
                   Append(chatHistory,
                          [role |-> "assistant",
                           content |-> IF /\ lastEvent'.kind = "http_response"
                                          /\ "response" \in DOMAIN lastEvent'.data
                                       THEN lastEvent'.data.response ELSE Apology])]_vars

C34_Witness ==
    /\ lastEvent.kind = "http_failure"
    /\ Len(chatHistory) = 2
    /\ chatHistory[2] = [role |-> "assistant", content |-> Apology]
    /\ httpPending = <<>>

ConnectingOrOpen == {i \in DOMAIN sockets : sockets[i] \in {"CONNECTING", "OPEN"}}

(* C33: the session has at most one reconnection under way: the reconnect    *)
(* timers that are pending and the sockets that are connecting or open are   *)
(* never more than one together, whatever the order of the open, close and   *)
(* error events, the timers and destroy.                                     *)
C33_OneReconnectionInProgress ==
    Len(reconnectTimers) + Cardinality(ConnectingOrOpen) <= 1

C33_Witness ==
    /\ lastEvent.kind = "reconnect_timer"
    /\ retryCount = 2
    /\ Destroyed
    /\ reconnectTimers = <<>>
    /\ Cardinality(ConnectingOrOpen) = 1

----------------------------------------------------------------------------
(* Properties of teardown (SpecTeardown) *)

(* C5: a settle timer of completeToolCall that was pending when destroy()    *)
(* ran changes neither activeToolCalls nor toolCallHistory when it fires,    *)
(* nor does the animationend listener it adds.                               *)
C5_SettleAfterTeardownIsNoop ==
    [][(\/ lastEvent'.kind = "settle_timer" /\ lastEvent'.timer.atTeardown
        \/ lastEvent'.kind = "animationend" /\ lastEvent'.listener.atTeardown)
       => UNCHANGED <<activeToolCalls, toolCallHistory>>]_vars

----------------------------------------------------------------------------
(* Properties of frame dispatch (SpecFrames) *)

(* C8: a frame that does not parse, or lacks a required field, changes       *)
(* neither the connection nor the chat history, the streaming message or the *)
(* tracker, and the socket stays open for the frames that follow.            *)
C8_BadFrameIsDiscarded ==
    [][(lastEvent'.kind = "message" /\ lastEvent'.frame \in BadFrames) =>
          /\ UNCHANGED <<connVars, chatVars, toolVars>>
          /\ \E i \in DOMAIN sockets' : sockets'[i] \in {"OPEN", "CLOSING"}]_vars

----------------------------------------------------------------------------
(* Properties of the tracker (SpecTool) *)

StartFrameFor(event, id) ==
    /\ event.kind = "message"
    /\ IsStart(event.frame)
    /\ event.frame.json.event.tool_id = id

CompleteFrameFor(event, id) ==
    /\ event.kind = "message"
    /\ IsComplete(event.frame)
    /\ event.frame.json.event.tool_id = id

(* C9: a tool_call_start for an id that activeToolCalls holds changes        *)
(* nothing: the entry keeps its name, description and start time, no other   *)
(* entry appears and updateToolCallWidget is not called.                     *)
C9_DuplicateStartIsNoop ==
    [][\A id \in DOMAIN activeToolCalls :
          StartFrameFor(lastEvent', id) =>
             /\ UNCHANGED <<activeToolCalls, toolCallHistory, settleTimers, exitListeners>>
             /\ widgetUpdates' = 0]_vars

C9_Witness ==
    /\ StartFrameFor(lastEvent, "t1")
    /\ "t1" \in DOMAIN activeToolCalls
    /\ activeToolCalls["t1"].status = "active"
    /\ activeToolCalls["t1"].name = "get_iss_location"
    /\ activeToolCalls["t1"].description = "Executing get_iss_location"
    /\ lastEvent.frame.json.event.tool_name = "get_apod"
    /\ activeToolCalls["t1"].startTime < now
    /\ widgetUpdates = 0

TimersFor(id) == {k \in DOMAIN settleTimers : settleTimers[k].id = id}

(* C10: a tool_call_complete for an id whose entry is completed changes      *)
(* nothing: end time, duration and result stay, no settle timer is added,    *)
(* the history is untouched and updateToolCallWidget is not called; an id    *)
(* never has two settle timers pending.                                      *)
C10_DuplicateCompleteIsNoop ==
    /\ [](\A id \in DOMAIN activeToolCalls : Cardinality(TimersFor(id)) <= 1)
    /\ [][\A id \in DOMAIN activeToolCalls :
             (CompleteFrameFor(lastEvent', id) /\ activeToolCalls[id].status = "completed") =>
                /\ UNCHANGED <<activeToolCalls, toolCallHistory, settleTimers, exitListeners>>
                /\ widgetUpdates' = 0]_vars

C10_Witness ==
    /\ CompleteFrameFor(lastEvent, "t1")
    /\ lastEvent.frame.json.event.result = "late"
    /\ "t1" \in DOMAIN activeToolCalls
    /\ activeToolCalls["t1"].status = "completed"
    /\ activeToolCalls["t1"].result = "ok"
    /\ activeToolCalls["t1"].endTime < now
    /\ Cardinality(TimersFor("t1")) = 1

(* C11: a tool_call_complete for an id that activeToolCalls does not hold    *)
(* changes nothing: activeToolCalls and toolCallHistory stay, no settle      *)
(* timer is set, updateToolCallWidget is not called, and the frame is        *)
(* handled like any other (the connection is untouched).                     *)
C11_UnknownCompleteIsNoop ==
    [][\A id \in {"t1", "t2"} :
          (CompleteFrameFor(lastEvent', id) /\ id \notin DOMAIN activeToolCalls) =>
             /\ UNCHANGED <<activeToolCalls, toolCallHistory, settleTimers, exitListeners>>
             /\ UNCHANGED connVars
             /\ widgetUpdates' = 0]_vars

C11_Witness ==
    /\ CompleteFrameFor(lastEvent, "t2")
    /\ DOMAIN activeToolCalls = {"t1"}
    /\ activeToolCalls["t1"].status = "active"
    /\ toolCallHistory = <<>>
    /\ settleTimers = <<>>

(* C12: every entry that completeToolCall has marked completed leaves        *)
(* activeToolCalls for toolCallHistory.  The move is made by the entry's     *)
(* settle timer and the animationend listener the timer adds, and by nothing *)
(* else, so a completed entry must always have one of the two pending,       *)
(* whatever starts, completions and moves of other tool calls come between.  *)
C12_CompletedEntryWillSettle ==
    \A id \in DOMAIN activeToolCalls :
        activeToolCalls[id].status = "completed" =>
            \/ TimersFor(id) # {}
            \/ \E listener \in exitListeners : listener.id = id

(* C14: a tool_call_complete for an id whose entry is active makes the entry *)
(* completed, with endTime the time of the event, duration = endTime -       *)
(* startTime >= 0 and result the result the event carries, whatever it is.   *)
C14_CompleteStoresResult ==
    [][\A id \in DOMAIN activeToolCalls :
          (CompleteFrameFor(lastEvent', id) /\ activeToolCalls[id].status = "active") =>
             /\ id \in DOMAIN activeToolCalls'
             /\ activeToolCalls'[id].status = "completed"
             /\ activeToolCalls'[id].startTime = activeToolCalls[id].startTime
             /\ activeToolCalls'[id].endTime = now
             /\ activeToolCalls'[id].duration = now - activeToolCalls[id].startTime
             /\ activeToolCalls'[id].duration >= 0
             /\ activeToolCalls'[id].result = lastEvent'.frame.json.event.result]_vars

HistoryHolds(id) == \E k \in DOMAIN toolCallHistory : toolCallHistory[k].id = id

(* C28: the entry of an id goes from active to completed to the history and  *)
(* never back: an id whose entry is completed, or is in toolCallHistory, has *)
(* no entry of status "active" after any step.                               *)
C28_LifecycleOnlyMovesForward ==
    [][\A id \in {"t1", "t2"} :
          (\/ HistoryHolds(id)
           \/ (id \in DOMAIN activeToolCalls /\ activeToolCalls[id].status = "completed")) =>
             ~(id \in DOMAIN activeToolCalls' /\ activeToolCalls'[id].status = "active")]_vars

(* C29: an id names at most one tool call among those tracked: no id is in   *)
(* activeToolCalls and in toolCallHistory at once, and toolCallHistory holds *)
(* no id twice.                                                              *)
C29_IdIsUniqueAmongTracked ==
    /\ \A id \in DOMAIN activeToolCalls : ~HistoryHolds(id)
    /\ \A j, k \in DOMAIN toolCallHistory :
          toolCallHistory[j].id = toolCallHistory[k].id => j = k

(* C30: an entry leaves activeToolCalls only for toolCallHistory: in the     *)
(* step that removes an id from activeToolCalls, the entry it had becomes    *)
(* the last one of toolCallHistory.                                          *)
C30_RemovalIsMoveIntoHistory ==
    [][\A id \in DOMAIN activeToolCalls :
          id \notin DOMAIN activeToolCalls' =>
             (/\ toolCallHistory' # <<>>
              /\ toolCallHistory'[Len(toolCallHistory')] = activeToolCalls[id]
              /\ Len(toolCallHistory') = Min(Len(toolCallHistory) + 1, ToolHistoryCap))]_vars

(* C31: a step that changes activeToolCalls or toolCallHistory (a start that *)
(* adds an entry, a complete that marks one, a move or a removal by the      *)
(* settle step) calls updateToolCallWidget exactly once, which renders the   *)
(* entries activeToolCalls then holds; a step that changes neither (a start  *)
(* for an id that is tracked, a complete for an id that is unknown or        *)
(* completed, a timer that only starts the exit animation) does not call it. *)
C31_OneNotificationPerChange ==
    /\ [][widgetUpdates' = IF <<activeToolCalls, toolCallHistory>>'
                                  # <<activeToolCalls, toolCallHistory>> THEN 1 ELSE 0]_vars
    /\ [][\A id \in {"t1", "t2"} :
             StartFrameFor(lastEvent', id) =>
                widgetUpdates' = IF id \in DOMAIN activeToolCalls THEN 0 ELSE 1]_vars
    /\ [][\A id \in {"t1", "t2"} :
             CompleteFrameFor(lastEvent', id) =>
                widgetUpdates' = IF ShouldComplete(Tracker, id) THEN 1 ELSE 0]_vars
    /\ [][(widgetUpdates' = 1 /\ widgetPresent) =>
             toolCallItems' = DOMAIN activeToolCalls']_vars

C31_Witness ==
    /\ lastEvent.kind = "animationend"
    /\ widgetUpdates = 1
    /\ Len(toolCallHistory) = 1
    /\ DOMAIN activeToolCalls = {"t2"}
    /\ toolCallItems = {"t2"}

----------------------------------------------------------------------------
(* Properties of the tool-call history (SpecHistory) *)

(* C13: toolCallHistory never holds more than 10 entries; it changes only by *)
(* the move of an entry from activeToolCalls to its end, and when that makes *)
(* 11 the oldest entry is dropped and the other 10 keep their order; the     *)
(* entries are completed ones, each id once, in the order of completion.     *)
C13_HistoryKeepsLastTen ==
    /\ [](/\ Len(toolCallHistory) <= 10
          /\ \A j, k \in DOMAIN toolCallHistory :
                /\ toolCallHistory[k].status = "completed"
                /\ j < k => /\ IdIndex(toolCallHistory[j].id) < IdIndex(toolCallHistory[k].id)
                            /\ toolCallHistory[j].endTime <= toolCallHistory[k].endTime)
    /\ [][(toolCallHistory' # toolCallHistory) =>
             (\E id \in DOMAIN activeToolCalls : id \notin DOMAIN activeToolCalls')]_vars
    /\ [][\A id \in DOMAIN activeToolCalls :
             id \notin DOMAIN activeToolCalls' =>
                LET pushed == Append(toolCallHistory, activeToolCalls[id])
                IN  toolCallHistory' = IF Len(toolCallHistory) = 10
                                       THEN Tail(pushed) ELSE pushed]_vars

C13_Witness ==
    /\ lastEvent.kind = "animationend"
    /\ lastEvent.listener.id = "c11"
    /\ activeToolCalls = <<>>
    /\ Len(toolCallHistory) = 10
    /\ \A k \in 1..10 : toolCallHistory[k].id = HistoryIds[k + 1]

----------------------------------------------------------------------------
(* Properties of the chat history (SpecChat) *)

(* C15: chatHistory never holds more than 50 turns, whichever operation      *)
(* appended the latest one.                                                  *)
C15_HistoryWithinCap == Len(chatHistory) <= 50

(* C16: chatHistory changes only by the append of one turn, and an append    *)
(* that makes more than 50 turns leaves exactly the 40 most recent ones in   *)
(* their order, the new turn last; no other append drops a turn.             *)
C16_AppendTruncatesToForty ==
    [][chatHistory' # chatHistory =>
          /\ chatHistory' # <<>>
          /\ LET pushed == Append(chatHistory, chatHistory'[Len(chatHistory')])
             IN  chatHistory' = IF Len(pushed) > 50
                                THEN SubSeq(pushed, Len(pushed) - 39, Len(pushed))
                                ELSE pushed]_vars

----------------------------------------------------------------------------
(* Properties of the streamed reply (SpecStream) *)

ReplyChunks == {"Hello ", "world"}

ChunkSeqs == UNION {[1..n -> ReplyChunks] : n \in 1..MaxChunks}

IsEndFrame(event) ==
    event.kind = "message" /\ event.frame = Frame([type |-> "chat_response_end"])

(* the streaming message as it is after the chunks cs, and nothing else, *)
(* have been appended to it                                              *)
StreamOf(cs) == <<[k \in DOMAIN cs |-> MarkedText(cs[k])]>>

RECURSIVE Concatenation(_)
Concatenation(cs) == IF cs = <<>> THEN "" ELSE Head(cs) \o Concatenation(Tail(cs))

(* C17: a chat_response_end that follows the chunks c1..cn (n >= 1) appends  *)
(* one assistant turn whose content is c1 + ... + cn, "Hello world" for the  *)
(* chunks "Hello " and "world", and ends the streaming message.              *)
C17_StreamedReplyIsConcatenation ==
    [][\A cs \in ChunkSeqs :
          (IsEndFrame(lastEvent') /\ streamingMessage = StreamOf(cs)) =>
             /\ chatHistory' = Append(chatHistory,
                                      [role |-> "assistant", content |-> Concatenation(cs)])
             /\ streamingMessage' = <<>>]_vars

(* C18: a chat_response_end received while there is no streaming message     *)
(* changes nothing: the chat history, the connection, the requests sent and   *)
(* the tracker stay as they are, so a second chat_response_end appends no     *)
(* second turn.                                                               *)
C18_EndWithoutStreamIsNoop ==
    [][(IsEndFrame(lastEvent') /\ streamingMessage = <<>>) =>
          /\ UNCHANGED <<connVars, chatVars, sendVars, toolVars>>
          /\ widgetUpdates' = 0]_vars

C18_Witness ==
    /\ IsEndFrame(lastEvent)
    /\ streamingMessage = <<>>
    /\ chatHistory = <<>>

IsChunkFrame(event) ==
    /\ event.kind = "message"
    /\ ~ParseFails(event.frame)
    /\ Field(event.frame.json, "type") = "chat_response_chunk"

(* C32: there is at most one streaming message.  A chat_response_chunk makes *)
(* one, holding that chunk alone, when there is none, and else adds its      *)
(* chunk to the one there is, after the chunks it holds; a                   *)
(* chat_response_end leaves none, so that the chunk after it starts a        *)
(* message with nothing in it from before.                                   *)
C32_OneStreamingMessage ==
    /\ [](Len(streamingMessage) <= 1)
    /\ [][IsChunkFrame(lastEvent') =>
             /\ Len(streamingMessage') = 1
             /\ Len(streamingMessage'[1]) =
                   IF streamingMessage = <<>> THEN 1 ELSE Len(streamingMessage[1]) + 1
             /\ streamingMessage # <<>> =>
                   SubSeq(streamingMessage'[1], 1, Len(streamingMessage[1]))
                      = streamingMessage[1]]_vars
    /\ [][IsEndFrame(lastEvent') => streamingMessage' = <<>>]_vars

C32_Witness ==
    /\ IsChunkFrame(lastEvent)
    /\ Len(chatHistory) = 1
    /\ chatHistory[1].content # "Hi"
    /\ Len(streamingMessage) = 1
    /\ Len(streamingMessage[1]) = 1

----------------------------------------------------------------------------
(* Properties of the fallback path (SpecSend) *)

(* the tools simulateToolCallsFromMessage starts *)
SimulatedTools == {"codebase_search", "read_file", "web_search"}

(* C19: when a fallback request fails, the apology is appended to the chat   *)
(* history as one assistant turn and the tracker is as the backend's events  *)
(* made it: the send has put no tool call of its own in it and has left no   *)
(* timer that will change one.                                               *)
C19_FailedFallbackOnlyApologizes ==
    [][lastEvent'.kind = "http_failure" =>
          /\ chatHistory' = Append(chatHistory, [role |-> "assistant", content |-> Apology])
          /\ UNCHANGED <<activeToolCalls, toolCallHistory>>
          /\ \A id \in DOMAIN activeToolCalls' :
                activeToolCalls'[id].name \notin SimulatedTools
          /\ \A k \in DOMAIN toolCallHistory' :
                toolCallHistory'[k].name \notin SimulatedTools
          /\ simTimers' = {}]_vars

(* the events of a response hold a tool_call_start of id and, after it, a *)
(* tool_call_complete of id, events[k]                                     *)
StartThenComplete(events, id, k) ==
    /\ Field(events[k], "type") = "tool_call_complete"
    /\ Field(events[k], "tool_id") = id
    /\ \E j \in 1..(k - 1) :
          /\ Field(events[j], "type") = "tool_call_start"
          /\ Field(events[j], "tool_id") = id

(* C20: a 2xx response {response, tool_call_events} appends one assistant    *)
(* turn whose content is the response text, and every id with a              *)
(* tool_call_start followed by a tool_call_complete among the events is then *)
(* a completed entry that carries the result of the tool_call_complete (of   *)
(* the first one that has a result, when the events hold several).           *)
C20_FallbackReplyIsReplayed ==
    [][lastEvent'.kind = "http_response" =>
          LET data == lastEvent'.data
              events == IF "tool_call_events" \in DOMAIN data
                        THEN data.tool_call_events ELSE <<>>
          IN  /\ chatHistory' = Append(chatHistory,
                                       [role |-> "assistant", content |-> data.response])
              /\ \A k \in DOMAIN events, id \in {"t1", "t2"} :
                    (/\ StartThenComplete(events, id, k)
                     /\ "result" \in DOMAIN events[k]
                     /\ \A j \in 1..(k - 1) : ~StartThenComplete(events, id, j)) =>
                       /\ id \in DOMAIN activeToolCalls'
                       /\ activeToolCalls'[id].status = "completed"
                       /\ activeToolCalls'[id].result = events[k].result]_vars

(* C21: the replay of the tool_call_events of a fallback response leaves the *)
(* tracker as the delivery of the same events, in the same order, as         *)
(* tool_call_event frames would leave it from the same state: the same       *)
(* activeToolCalls, toolCallHistory and settle timers.                       *)
C21_ReplayEqualsLiveDelivery ==
    [][(lastEvent'.kind = "http_response" /\ "tool_call_events" \in DOMAIN lastEvent'.data) =>
          LET live == DeliverLive(Tracker, lastEvent'.data.tool_call_events)
          IN  /\ activeToolCalls' = live.active
              /\ toolCallHistory' = live.history
              /\ settleTimers' = live.settle]_vars

C21_Witness ==
    /\ lastEvent.kind = "http_response"
    /\ lastEvent.data.response = "Twice."
    /\ "t1" \in DOMAIN activeToolCalls
    /\ activeToolCalls["t1"].name = "get_mars_weather"
    /\ activeToolCalls["t1"].status = "completed"
    /\ activeToolCalls["t1"].result = "timeout"
    /\ Cardinality(DOMAIN activeToolCalls) = 2

IsEventOf(evt, type, id) ==
    /\ IsObject(evt)
    /\ Field(evt, "type") = type
    /\ Field(evt, "tool_id") = id

(* C25: the tool_call_events of a fallback response are all delivered by the *)
(* time the response is handled; an id that has a tool_call_start and a      *)
(* tool_call_complete among them, in whatever order and however many times,  *)
(* is not left with an entry of status "active", which nothing that is still *)
(* to happen would complete.                                                 *)
C25_StartedAndCompletedIsNotLeftActive ==
    [][lastEvent'.kind = "http_response" =>
          LET data == lastEvent'.data
              events == IF "tool_call_events" \in DOMAIN data
                        THEN data.tool_call_events ELSE <<>>
          IN  \A id \in {"t1", "t2"} :
                 ((\E j \in DOMAIN events : IsEventOf(events[j], "tool_call_start", id))
                  /\ (\E k \in DOMAIN events : IsEventOf(events[k], "tool_call_complete", id)))
                    => ~(/\ id \in DOMAIN activeToolCalls'
                         /\ activeToolCalls'[id].status = "active")]_vars

(* C37: the entries of the tracker come from the tool events the backend    *)
(* reports, in tool_call_event frames or in the tool_call_events of a        *)
(* fallback response: a sendMessage, whatever its text and whether or not    *)
(* the channel is open, adds no entry to activeToolCalls and sets no timer   *)
(* that would change one.                                                    *)
C37_SendCreatesNoToolCall ==
    [][lastEvent'.kind = "send" =>
          /\ DOMAIN activeToolCalls' = DOMAIN activeToolCalls
          /\ UNCHANGED <<toolCallHistory, simTimers, genCount>>
          /\ widgetUpdates' = 0]_vars

----------------------------------------------------------------------------
(* Properties of the outbound request (SpecSecond) *)

(* C23: a sendMessage of a non-empty text makes one outbound request, a chat *)
(* frame on the socket or the body of a fallback request, and the request    *)
(* carries the text as message and, as chat_history, the 10 most recent      *)
(* turns of the chat history (all of them when there are fewer) in order.    *)
C23_OutboundCarriesRecentHistory ==
    [][(lastEvent'.kind = "send" /\ Trim(lastEvent'.input) # "") =>
          /\ (wsSent' # wsSent) # (httpPending' # httpPending)
          /\ LET out == IF wsSent' # wsSent
                        THEN wsSent'[Len(wsSent')] ELSE httpPending'[Len(httpPending')]
                 n == Len(chatHistory')
             IN  /\ out.message = Trim(lastEvent'.input)
                 /\ "chat_history" \in DOMAIN out
                 /\ Len(out.chat_history) <= 10
                 /\ out.chat_history =
                       SubSeq(chatHistory', IF n > 10 THEN n - 9 ELSE 1, n)]_vars

----------------------------------------------------------------------------
(* Properties of a session across reconnections (SpecSession) *)

ConnectionEvents ==
    {"open", "connection_failed", "transport_error", "server_close", "reconnect_timer"}

(* C24: the open of a socket, its close (asked for by nobody, after an error *)
(* or not, with retries left or not) and the firing of a reconnect timer     *)
(* leave the chat history and the tool-call tracker as they are.             *)
C24_ConnectionEventsKeepConversation ==
    [][lastEvent'.kind \in ConnectionEvents =>
          UNCHANGED <<chatHistory, streamingMessage, toolVars>>]_vars

C24_Witness ==
    /\ lastEvent = [kind |-> "open", retries |-> 1]
    /\ Len(chatHistory) = 2
    /\ "t1" \in DOMAIN activeToolCalls
    /\ activeToolCalls["t1"].status = "completed"
    /\ settleTimers # <<>>

----------------------------------------------------------------------------
(* Properties of the frames that are dropped (SpecDispatch) *)

(* C26: a frame that parses and whose type is none of the tags the dispatch  *)
(* has a case for (a type it does not know, or no type at all) leaves the    *)
(* chat history, the streamed reply, the tool-call tracker and the           *)
(* connection as they are, and updates no widget.                            *)
C26_UnknownTagIsDropped ==
    [][(/\ lastEvent'.kind = "message"
        /\ ~ParseFails(lastEvent'.frame)
        /\ Field(lastEvent'.frame.json, "type") \notin KnownTags) =>
          (UNCHANGED <<chatVars, toolVars, connVars, sendVars>> /\ widgetUpdates' = 0)]_vars

C26_Witness ==
    /\ lastEvent.kind = "message"
    /\ lastEvent.frame \in UnknownFrames
    /\ Field(lastEvent.frame.json, "type") = "typing"
    /\ Len(chatHistory) = 1
    /\ streamingMessage # <<>>
    /\ DOMAIN activeToolCalls = {"t1"}

DroppedEvent(data) ==
    /\ Field(data, "type") = "tool_call_event"
    /\ \/ ~IsObject(EventOf(data))
       \/ Field(EventOf(data), "type") \notin {"tool_call_start", "tool_call_complete"}

(* C27: a tool_call_event frame that has no event, or whose event has a type *)
(* other than tool_call_start and tool_call_complete (or none), leaves       *)
(* activeToolCalls and toolCallHistory as they are, starts no timer and      *)
(* updates no widget.                                                        *)
C27_EventWithoutKnownTypeIsDropped ==
    [][(/\ lastEvent'.kind = "message"
        /\ ~ParseFails(lastEvent'.frame)
        /\ DroppedEvent(lastEvent'.frame.json)) =>
          (UNCHANGED <<activeToolCalls, toolCallHistory, settleTimers>>
             /\ widgetUpdates' = 0)]_vars

C27_Witness ==
    /\ lastEvent.kind = "message"
    /\ lastEvent.frame \in DroppedToolFrames
    /\ Field(EventOf(lastEvent.frame.json), "type") = "tool_call_progress"
    /\ DOMAIN activeToolCalls = {"t1"}
    /\ activeToolCalls["t1"].status = "active"

C27_WitnessNoEvent ==
    /\ lastEvent.kind = "message"
    /\ lastEvent.frame = Frame([type |-> "tool_call_event"])
    /\ DOMAIN activeToolCalls = {"t1"}
    /\ toolCallHistory # <<>>

----------------------------------------------------------------------------
(* Properties of a streamed reply across reconnections (SpecResume) *)

(* C35: the turn a chat_response_end makes holds the chunks of one reply,    *)
(* received on one connection.  When a socket has just opened, nothing has   *)
(* been received on it and the chunks the streaming message holds came on    *)
(* an earlier connection: the first chunk received on the new one starts a   *)
(* message of its own and is not added to them.                              *)
C35_ChunksOfOneConnection ==
    [][(lastEvent.kind = "open" /\ IsChunkFrame(lastEvent')) =>
          (Len(streamingMessage') = 1 /\ Len(streamingMessage'[1]) = 1)]_vars

----------------------------------------------------------------------------
(* Properties of the request a send builds (SpecOutbound) *)

LastRequest == IF UseChannel THEN wsSent[Len(wsSent)] ELSE httpPending[Len(httpPending)]

(* C36: a sendMessage of a non-empty text appends one user turn, the text,   *)
(* to the chat history and builds its request after that: the chat_history   *)
(* of the request ends with that turn, next to the message field that holds  *)
(* the same text.                                                            *)
C36_RequestHoldsTheMessageSent ==
    [][(lastEvent'.kind = "send" /\ Trim(lastEvent'.input) # "") =>
          LET message == Trim(lastEvent'.input)
              turn == [role |-> "user", content |-> message]
              out == LastRequest'
          IN  /\ chatHistory' = Append(chatHistory, turn)
              /\ Len(wsSent') + Len(httpPending') = Len(wsSent) + Len(httpPending) + 1
              /\ out.message = message
              /\ "chat_history" \in DOMAIN out
              /\ out.chat_history # <<>>
              /\ out.chat_history[Len(out.chat_history)] = turn]_vars

C36_Witness ==
    /\ lastEvent.kind = "send"
    /\ ~UseChannel
    /\ Len(chatHistory) = 3
    /\ chatHistory[2].role = "assistant"
    /\ httpPending # <<>>
    /\ Len(httpPending[Len(httpPending)].chat_history) = 3

====
